---- MODULE Spec2Model ----
(***************************************************************************)
(* The MatchmakeClient session facade (src/unnamed/part_002) as a state    *)
(* machine: the public operations, the acknowledgements the transport      *)
(* delivers to their receive("ok")/receive("error") hooks, the lobby_update*)
(* push handler and the socket callbacks.                                  *)
(*                                                                         *)
(* One action is one run-to-completion turn of the JavaScript event loop:  *)
(* a public method up to its first await, or the continuation that an      *)
(* acknowledgement or a push resumes.  The history variables emitted,      *)
(* sent, settled, step and pre record what that one turn did.              *)
(*                                                                         *)
(* The phoenix transport is not part of the repository; it is modelled as  *)
(* an environment that may answer any in-flight request with ok or error   *)
(* and may push a lobby_update on any lobby channel whose join it has      *)
(* acknowledged with ok and that was not left, while the socket is open.   *)
(***************************************************************************)
EXTENDS Integers, Sequences, FiniteSets, Bags, TLC

VARIABLES
  sessionToken,  \* this.sessionToken: Undefined or a token
  currentLobby,  \* this.currentLobby: Null or a Lobby snapshot
  lobbyChannel,  \* this.lobbyChannel: Null or the channel of a lobby topic
  appChannel,    \* this.appChannel: Undefined before the first connect
  socketOpen,    \* this.socket: connect() called and not disconnect()
  subscribed,    \* lobby channels (each with its lobby_update handler)
                 \* joined with ok and not left
  pending,       \* bag of the operations awaiting an acknowledgement
  emitted,       \* events emitted by the last turn, in order
  sent,          \* requests handed to the transport by the last turn
  settled,       \* promise settled by the last turn, if any
  step,          \* what the last turn was, with its inputs
  pre,           \* session state the last turn started from
  joined         \* facade state LobbyJoined: a join was acknowledged with
                 \* ok and no leave ok or disconnect followed

vars == <<sessionToken, currentLobby, lobbyChannel, appChannel, socketOpen,
          subscribed, pending, emitted, sent, settled, step, pre, joined>>

----------------------------------------------------------------------------
(* Bounds *)

\* Requests that may be in flight at once.
MaxPending == 2

\* Longest players list of a snapshot handed to the diff.
MaxPlayers == 2

----------------------------------------------------------------------------
(* Values *)

Undefined == "undefined"

Null == [null |-> TRUE]

PlayerIds == {1, 2, 3}

\* Player: only id is read by the client; slug and joined_at are carried along.
Player(i) == [id |-> i]

Players == {Player(i) : i \in PlayerIds}

SeqsUpTo(S, n) == UNION {[1..k -> S] : k \in 0..n}

\* Lobby: the fields the client reads.  name, max_players, metadata and
\* created_at are never read and are left out of the snapshot.
Lobby(id, status, players, htype, haddr, hport) ==
  [id |-> id, status |-> status, players |-> players,
   host_type |-> htype, host_address |-> haddr, host_port |-> hport]

\* Snapshots handed to the diff engine.
DiffLobbies ==
  {Lobby(1, s, ps, t, a, p) :
     s \in {"open", "full"}, ps \in SeqsUpTo(Players, MaxPlayers),
     t \in {Undefined, "p2p", "dedicated"}, a \in {Undefined, "1.2.3.4"},
     p \in {Undefined, "7000"}}

\* Snapshots the server sends in the facade specification: two of lobby 1
\* and one of lobby 2.
Lobbies ==
  {Lobby(1, "open", <<Player(1)>>, Undefined, Undefined, Undefined),
   Lobby(1, "open", <<Player(1), Player(2)>>, Undefined, Undefined, Undefined),
   Lobby(2, "open", <<Player(1)>>, Undefined, Undefined, Undefined)}

Tokens == {"t1"}

\* active_configs of a connect acknowledgement (MatchmakingConfig ids).
ConfigLists == {<<>>, <<1>>}

ConfigIds == {1}

HostInfos == {[type |-> "p2p", address |-> "1.2.3.4", port |-> "7000"]}

\* err.reason of an error acknowledgement: absent or a text.
Reasons == {Undefined, "denied"}

\* Mutant: the topic does not carry the lobby's id.
LobbyTopicFixed(id) == [topic |-> <<"lobby:", 1>>]

\* `lobby:${lobby.id}`
LobbyTopic(id) == [topic |-> <<"lobby:", id>>]

AppTopic == [topic |-> <<"app:auth">>]

----------------------------------------------------------------------------
(* Errors and events *)

\* err.reason || 'Unknown error'
ReasonText(reason) ==
  IF reason = Undefined \/ reason = "" THEN "Unknown error" ELSE reason

ConnectionError(message) == [name |-> "ConnectionError", message |-> message]

LobbyError(message) == [name |-> "LobbyError", message |-> message]

\* A property read or a call on undefined/null.
TypeError == [name |-> "TypeError", message |-> <<"Cannot read properties">>]

\* this.emit(name, ...args)
Ev(name, args) == [name |-> name, args |-> args]

Names(evs) == [i \in DOMAIN evs |-> evs[i].name]

Request(chan, event, payload) ==
  [chan |-> chan, event |-> event, payload |-> payload]

NoResult == [op |-> "", state |-> "none", val |-> <<>>]

Resolved(op, v) == [op |-> op, state |-> "resolved", val |-> <<v>>]

Rejected(op, e) == [op |-> op, state |-> "rejected", val |-> <<e>>]

\* An operation awaiting its acknowledgement: the method the caller
\* invoked (via), the channel its request went out on and what its
\* closure captured.
Pending(op, via, req, captured) ==
  [op |-> op, via |-> via, chan |-> req.chan, captured |-> captured]

Step(act, op, via, ack, input) ==
  [act |-> act, op |-> op, via |-> via, ack |-> ack, input |-> input]

\* The operations in flight, one more or one fewer.
Add(bag, r) == bag (+) SetToBag({r})

Remove(bag, r) == bag (-) SetToBag({r})

\* The facade state machine of the session: LobbyJoined is entered by a
\* join acknowledged with ok and left by a completed leave or disconnect.
LobbyJoined(stp, res) ==
  IF stp.op = "joinLobby" /\ stp.ack = "ok" THEN TRUE
  ELSE IF stp.op = "disconnect" THEN FALSE
  ELSE IF stp.op = "leaveLobby" /\ stp.ack = "ok" /\ res.state = "resolved"
       THEN FALSE
  ELSE joined

\* One turn: the next value of every variable.
Turn(tok, lob, chan, app, sock, subs, pend, em, snt, res, stp) ==
  /\ sessionToken' = tok
  /\ currentLobby' = lob
  /\ lobbyChannel' = chan
  /\ appChannel' = app
  /\ socketOpen' = sock
  /\ subscribed' = subs
  /\ pending' = pend
  /\ emitted' = em
  /\ sent' = snt
  /\ settled' = res
  /\ step' = stp
  /\ pre' = [sessionToken |-> sessionToken, currentLobby |-> currentLobby,
             lobbyChannel |-> lobbyChannel]
  /\ joined' = LobbyJoined(stp, res)

\* A turn that only emits and settles.
Quiet(em, res, stp, pend) ==
  Turn(sessionToken, currentLobby, lobbyChannel, appChannel, socketOpen,
       subscribed, pend, em, <<>>, res, stp)

----------------------------------------------------------------------------
(* Lobby update diff: onLobbyUpdate *)

\* lobby.players.forEach: playerJoined for each player whose id is not in
\* oldPlayerIds, in list order.
RECURSIVE JoinedEvents(_, _, _)
JoinedEvents(players, oldPlayerIds, lobby) ==
  IF players = <<>> THEN <<>>
  ELSE (IF Head(players).id \notin oldPlayerIds
        THEN <<Ev("playerJoined", <<Head(players), lobby>>)>>
        ELSE <<>>)
       \o JoinedEvents(Tail(players), oldPlayerIds, lobby)

\* Mutant: the membership test lost its negation.
LeftEventsInverted(players, newPlayerIds, lobby) ==
  LET left == SelectSeq(players, LAMBDA p : p.id \in newPlayerIds)
  IN [i \in DOMAIN left |-> Ev("playerLeft", <<left[i], lobby>>)]

\* this.currentLobby.players.forEach: playerLeft for each player whose id
\* is not in newPlayerIds, in list order.
RECURSIVE LeftEvents(_, _, _)
LeftEvents(players, newPlayerIds, lobby) ==
  IF players = <<>> THEN <<>>
  ELSE (IF Head(players).id \notin newPlayerIds
        THEN <<Ev("playerLeft", <<Head(players), lobby>>)>>
        ELSE <<>>)
       \o LeftEvents(Tail(players), newPlayerIds, lobby)

\* Mutant: the event carries the status that was cached.
StatusEventsOldStatus(prev, lobby) ==
  IF lobby.status # prev.status
  THEN <<Ev("statusChanged", <<prev.status, lobby>>)>>
  ELSE <<>>

StatusEvents(prev, lobby) ==
  IF lobby.status # prev.status
  THEN <<Ev("statusChanged", <<lobby.status, lobby>>)>>
  ELSE <<>>

\* Mutant: the two host descriptors are compared as objects, by identity.
HostEventsAlways(prev, lobby) ==
  <<Ev("hostChanged",
       <<[type |-> lobby.host_type, address |-> lobby.host_address,
          port |-> lobby.host_port], lobby>>)>>

\* Mutant: the port is left out of the comparison.
HostEventsNoPort(prev, lobby) ==
  IF \/ lobby.host_address # prev.host_address
     \/ lobby.host_type # prev.host_type
  THEN <<Ev("hostChanged",
            <<[type |-> lobby.host_type, address |-> lobby.host_address,
               port |-> lobby.host_port], lobby>>)>>
  ELSE <<>>

HostEvents(prev, lobby) ==
  IF \/ lobby.host_address # prev.host_address
     \/ lobby.host_port # prev.host_port
     \/ lobby.host_type # prev.host_type
  THEN <<Ev("hostChanged",
            <<[type |-> lobby.host_type, address |-> lobby.host_address,
               port |-> lobby.host_port], lobby>>)>>
  ELSE <<>>

\* Mutant: the left-players loop is a copy of the joined-players loop with
\* only the event renamed.
DiffEventsCopiedLoop(prev, lobby) ==
  LET oldPlayerIds == {prev.players[i].id : i \in DOMAIN prev.players}
      joinedEvs == JoinedEvents(lobby.players, oldPlayerIds, lobby)
  IN joinedEvs
     \o [i \in DOMAIN joinedEvs |-> Ev("playerLeft", joinedEvs[i].args)]
     \o StatusEvents(prev, lobby)
     \o HostEvents(prev, lobby)

\* Mutant: the left-players loop runs before the joined-players loop.
DiffEventsLeftFirst(prev, lobby) ==
  LET oldPlayerIds == {prev.players[i].id : i \in DOMAIN prev.players}
      newPlayerIds == {lobby.players[i].id : i \in DOMAIN lobby.players}
  IN LeftEvents(prev.players, newPlayerIds, lobby)
     \o JoinedEvents(lobby.players, oldPlayerIds, lobby)
     \o StatusEvents(prev, lobby)
     \o HostEvents(prev, lobby)

\* The events of the if (this.currentLobby) block.
DiffEvents(prev, lobby) ==
  LET oldPlayerIds == {prev.players[i].id : i \in DOMAIN prev.players}
      newPlayerIds == {lobby.players[i].id : i \in DOMAIN lobby.players}
  IN JoinedEvents(lobby.players, oldPlayerIds, lobby)
     \o LeftEvents(prev.players, newPlayerIds, lobby)
     \o StatusEvents(prev, lobby)
     \o HostEvents(prev, lobby)

\* getCurrentLobby()
GetCurrentLobby == currentLobby

\* Everything one onLobbyUpdate(lobby) call emits.
UpdateEvents(prev, lobby) ==
  (IF prev # Null THEN DiffEvents(prev, lobby) ELSE <<>>)
  \o <<Ev("lobbyUpdate", <<lobby>>)>>

\* Mutant: the pushed snapshot is merged into the cached one, whose players
\* list is kept.
UpdateCacheMerged(prev, lobby) ==
  IF prev # Null THEN [lobby EXCEPT !.players = prev.players] ELSE lobby

\* Mutant: the cache is assigned inside the if (this.currentLobby) block.
UpdateCacheInsideIf(prev, lobby) == IF prev # Null THEN lobby ELSE prev

\* The snapshot cached when onLobbyUpdate(lobby) returns.
UpdateCache(prev, lobby) == lobby

\* A lobby_update push delivered on a lobby channel with a handler.
OnLobbyUpdate(chan, lobby) ==
  /\ socketOpen
  /\ chan \in subscribed
  /\ Turn(sessionToken, UpdateCache(currentLobby, lobby), lobbyChannel,
          appChannel, socketOpen, subscribed, pending,
          UpdateEvents(currentLobby, lobby), <<>>, NoResult,
          Step("push", "onLobbyUpdate", "", "", <<chan, lobby>>))

----------------------------------------------------------------------------
(* connect *)

\* connect(options) up to the await: socket.connect(), a new app channel,
\* appChannel.join().
Connect ==
  /\ BagCardinality(pending) < MaxPending
  /\ LET req == Request(AppTopic, "phx_join",
                        [player_slug |-> "player123", ip_address |-> "127.0.0.1"])
     IN Turn(sessionToken, currentLobby, lobbyChannel, AppTopic, TRUE,
             subscribed, Add(pending, Pending("connect", "connect", req, <<>>)),
             <<>>, <<req>>, NoResult,
             Step("call", "connect", "connect", "", <<>>))

\* Mutant: the response's token is not stored.
ConnectOkTokenDropped(resp) == sessionToken

\* What connect does with receive("ok", resp).
ConnectOkToken(resp) == resp.session_token

ConnectOkEvents(resp) == <<Ev("connected", <<resp.active_configs>>)>>

ConnectOk(r, resp) ==
  /\ socketOpen
  /\ BagIn(r, pending)
  /\ r.op = "connect"
  /\ Turn(ConnectOkToken(resp), currentLobby, lobbyChannel, appChannel,
          socketOpen, subscribed, Remove(pending, r),
          ConnectOkEvents(resp), <<>>,
          Resolved("connect", resp.active_configs),
          Step("ack", "connect", "connect", "ok", <<resp>>))

\* What connect does with receive("error", err).
ConnectFailure(reason) ==
  ConnectionError(<<"Failed to join app channel: ", ReasonText(reason)>>)

ConnectError(r, reason) ==
  /\ socketOpen
  /\ BagIn(r, pending)
  /\ r.op = "connect"
  /\ Quiet(<<Ev("error", <<ConnectFailure(reason)>>)>>,
           Rejected("connect", ConnectFailure(reason)),
           Step("ack", "connect", "connect", "error", <<reason>>),
           Remove(pending, r))

----------------------------------------------------------------------------
(* joinLobby *)

\* What a throw before the try block emits: nothing.
GuardEvents(err) == <<>>

\* joinLobby(lobby) up to the await, called by `via` in a turn that has
\* already emitted em and leaves pend in flight.
JoinLobbyTurn(lobby, via, pend, em, stp) ==
  IF sessionToken = Undefined
  THEN Quiet(em \o GuardEvents(ConnectionError(<<"Not connected">>)),
             Rejected(via, ConnectionError(<<"Not connected">>)), stp, pend)
  ELSE /\ BagCardinality(pend) < MaxPending
       /\ LET chan == LobbyTopic(lobby.id)
              req == Request(chan, "phx_join", [session_token |-> sessionToken])
          IN Turn(sessionToken, currentLobby, chan, appChannel, socketOpen,
                  subscribed,
                  Add(pend, Pending("joinLobby", via, req, <<lobby>>)),
                  em, <<req>>, NoResult, stp)

JoinLobby(lobby) ==
  JoinLobbyTurn(lobby, "joinLobby", pending, <<>>,
                Step("call", "joinLobby", "joinLobby", "", <<lobby>>))

JoinOk(r, lobby) ==
  /\ socketOpen
  /\ BagIn(r, pending)
  /\ r.op = "joinLobby"
  /\ Turn(sessionToken, lobby, lobbyChannel, appChannel, socketOpen,
          subscribed \cup {r.chan}, Remove(pending, r),
          <<Ev("lobbyJoined", <<lobby>>)>>, <<>>,
          Resolved(r.via, lobby),
          Step("ack", "joinLobby", r.via, "ok",
               <<lobby, r.chan, r.captured[1]>>))

JoinFailure(reason) ==
  LobbyError(<<"Failed to join lobby: ", ReasonText(reason)>>)

\* The catch block resets this.lobbyChannel, whichever channel it holds.
JoinError(r, reason) ==
  /\ socketOpen
  /\ BagIn(r, pending)
  /\ r.op = "joinLobby"
  /\ Turn(sessionToken, currentLobby, Null, appChannel, socketOpen,
          subscribed, Remove(pending, r),
          <<Ev("error", <<JoinFailure(reason)>>)>>, <<>>,
          Rejected(r.via, JoinFailure(reason)),
          Step("ack", "joinLobby", r.via, "error", <<reason>>))

----------------------------------------------------------------------------
(* findLobby and findAndJoinLobby *)

\* findLobby(configId) up to the await; via is the method the caller
\* invoked, findLobby or findAndJoinLobby.  this.appChannel is undefined
\* before the first connect: the push throws inside the try block.
FindLobby(configId, via) ==
  IF appChannel = Null
  THEN Quiet(<<Ev("error", <<TypeError>>)>>, Rejected(via, TypeError),
             Step("call", "findLobby", via, "", <<configId>>), pending)
  ELSE /\ BagCardinality(pending) < MaxPending
       /\ LET req == Request(appChannel, "find_lobby", [config_id |-> configId])
          IN Turn(sessionToken, currentLobby, lobbyChannel, appChannel,
                  socketOpen, subscribed,
                  Add(pending, Pending("findLobby", via, req, <<>>)),
                  <<>>, <<req>>, NoResult,
                  Step("call", "findLobby", via, "", <<configId>>))

\* receive("ok") of find_lobby; findAndJoinLobby goes on to
\* joinLobby(lobby) in the same turn.
FindOk(r, lobby) ==
  /\ socketOpen
  /\ BagIn(r, pending)
  /\ r.op = "findLobby"
  /\ IF r.via = "findAndJoinLobby"
     THEN JoinLobbyTurn(lobby, "findAndJoinLobby", Remove(pending, r),
                        <<Ev("lobbyFound", <<lobby>>)>>,
                        Step("ack", "findLobby", "findAndJoinLobby", "ok", <<lobby>>))
     ELSE Quiet(<<Ev("lobbyFound", <<lobby>>)>>, Resolved("findLobby", lobby),
                Step("ack", "findLobby", "findLobby", "ok", <<lobby>>),
                Remove(pending, r))

FindFailure(reason) ==
  LobbyError(<<"Failed to find lobby: ", ReasonText(reason)>>)

\* Mutant: the catch block pushes find_lobby again instead of rejecting.
FindErrorRetried(r, reason) ==
  /\ socketOpen
  /\ BagIn(r, pending)
  /\ r.op = "findLobby"
  /\ Turn(sessionToken, currentLobby, lobbyChannel, appChannel, socketOpen,
          subscribed, pending, <<Ev("error", <<FindFailure(reason)>>)>>,
          <<Request(r.chan, "find_lobby", [config_id |-> 1])>>, NoResult,
          Step("ack", "findLobby", r.via, "error", <<reason>>))

FindError(r, reason) ==
  /\ socketOpen
  /\ BagIn(r, pending)
  /\ r.op = "findLobby"
  /\ Quiet(<<Ev("error", <<FindFailure(reason)>>)>>,
           Rejected(r.via, FindFailure(reason)),
           Step("ack", "findLobby", r.via, "error", <<reason>>),
           Remove(pending, r))

----------------------------------------------------------------------------
(* setHostInfo *)

\* Mutant: the guards are missing.
SetHostGuardNone(chan, tok) == <<>>

\* Mutant: the session token is tested before the lobby channel.
SetHostGuardTokenFirst(chan, tok) ==
  IF tok = Undefined THEN <<ConnectionError(<<"Not connected">>)>>
  ELSE IF chan = Null THEN <<LobbyError(<<"Not in a lobby">>)>>
  ELSE <<>>

\* The two throws that open setHostInfo, in their order; <<>> when the
\* call goes on to the push.
SetHostGuard(chan, tok) ==
  IF chan = Null THEN <<LobbyError(<<"Not in a lobby">>)>>
  ELSE IF tok = Undefined THEN <<ConnectionError(<<"Not connected">>)>>
  ELSE <<>>

SetHostInfo(hostInfo) ==
  LET thrown == SetHostGuard(lobbyChannel, sessionToken)
      stp == Step("call", "setHostInfo", "setHostInfo", "", <<hostInfo>>)
  IN IF thrown # <<>>
     THEN Quiet(GuardEvents(thrown[1]), Rejected("setHostInfo", thrown[1]),
                stp, pending)
     ELSE /\ BagCardinality(pending) < MaxPending
          /\ LET req == Request(lobbyChannel, "set_host",
                                [host_type |-> hostInfo.type,
                                 host_address |-> hostInfo.address,
                                 host_port |-> hostInfo.port,
                                 session_token |-> sessionToken])
             IN Turn(sessionToken, currentLobby, lobbyChannel, appChannel,
                     socketOpen, subscribed,
                     Add(pending, Pending("setHostInfo", "setHostInfo", req,
                                             <<hostInfo>>)),
                     <<>>, <<req>>, NoResult, stp)

SetHostOk(r) ==
  /\ socketOpen
  /\ BagIn(r, pending)
  /\ r.op = "setHostInfo"
  /\ Quiet(<<Ev("hostInfoSet", r.captured)>>,
           Resolved("setHostInfo", Undefined),
           Step("ack", "setHostInfo", "setHostInfo", "ok", <<>>),
           Remove(pending, r))

SetHostFailure(reason) ==
  LobbyError(<<"Failed to set host info: ", ReasonText(reason)>>)

SetHostError(r, reason) ==
  /\ socketOpen
  /\ BagIn(r, pending)
  /\ r.op = "setHostInfo"
  /\ Quiet(<<Ev("error", <<SetHostFailure(reason)>>)>>,
           Rejected("setHostInfo", SetHostFailure(reason)),
           Step("ack", "setHostInfo", "setHostInfo", "error", <<reason>>),
           Remove(pending, r))

----------------------------------------------------------------------------
(* leaveLobby *)

\* The throw that opens leaveLobby; <<>> when the call goes on to the push.
LeaveGuard(chan, tok, lobby) ==
  IF chan = Null \/ tok = Undefined \/ lobby = Null
  THEN <<LobbyError(<<"Not in a lobby">>)>>
  ELSE <<>>

LeaveLobby ==
  LET thrown == LeaveGuard(lobbyChannel, sessionToken, currentLobby)
      stp == Step("call", "leaveLobby", "leaveLobby", "", <<>>)
  IN IF thrown # <<>>
     THEN Quiet(GuardEvents(thrown[1]), Rejected("leaveLobby", thrown[1]),
                stp, pending)
     ELSE /\ BagCardinality(pending) < MaxPending
          /\ LET lobbyId == currentLobby.id
                 req == Request(lobbyChannel, "leave",
                                [lobby_id |-> lobbyId,
                                 session_token |-> sessionToken])
             IN Turn(sessionToken, currentLobby, lobbyChannel, appChannel,
                     socketOpen, subscribed,
                     Add(pending, Pending("leaveLobby", "leaveLobby", req,
                                             <<lobbyId>>)),
                     <<>>, <<req>>, NoResult, stp)

\* After the await: this.lobbyChannel.leave() throws when the field was
\* reset to null while the request was in flight; the catch block emits
\* and rethrows.
LeaveOk(r) ==
  /\ socketOpen
  /\ BagIn(r, pending)
  /\ r.op = "leaveLobby"
  /\ LET stp == Step("ack", "leaveLobby", "leaveLobby", "ok",
                     r.captured)
     IN IF lobbyChannel = Null
        THEN Quiet(<<Ev("error", <<TypeError>>)>>,
                   Rejected("leaveLobby", TypeError), stp, Remove(pending, r))
        ELSE Turn(sessionToken, Null, Null, appChannel, socketOpen,
                  subscribed \ {lobbyChannel}, Remove(pending, r),
                  <<Ev("lobbyLeft", r.captured)>>, <<>>,
                  Resolved("leaveLobby", Undefined), stp)

LeaveFailure(reason) ==
  LobbyError(<<"Failed to leave lobby: ", ReasonText(reason)>>)

\* Mutant: the catch block clears the lobby state as the success path does.
LeaveErrorClears(r, reason) ==
  /\ socketOpen
  /\ BagIn(r, pending)
  /\ r.op = "leaveLobby"
  /\ Turn(sessionToken, Null, Null, appChannel, socketOpen,
          subscribed, Remove(pending, r),
          <<Ev("error", <<LeaveFailure(reason)>>)>>, <<>>,
          Rejected("leaveLobby", LeaveFailure(reason)),
          Step("ack", "leaveLobby", "leaveLobby", "error", <<reason>>))

LeaveError(r, reason) ==
  /\ socketOpen
  /\ BagIn(r, pending)
  /\ r.op = "leaveLobby"
  /\ Quiet(<<Ev("error", <<LeaveFailure(reason)>>)>>,
           Rejected("leaveLobby", LeaveFailure(reason)),
           Step("ack", "leaveLobby", "leaveLobby", "error", <<reason>>),
           Remove(pending, r))

----------------------------------------------------------------------------
(* disconnect and the socket callbacks *)

\* The session token after disconnect(): the method does not assign it.
DisconnectToken(tok) == tok

\* disconnect(): leaves the lobby channel and the app channel, closes the
\* socket.  Requests in flight on the closed socket are never
\* acknowledged: their promises stay pending.
Disconnect ==
  Turn(DisconnectToken(sessionToken), Null, Null, appChannel, FALSE,
       subscribed \ {lobbyChannel}, EmptyBag,
       <<Ev("disconnected", <<>>)>>, <<>>, NoResult,
       Step("call", "disconnect", "disconnect", "", <<>>))

\* socket.onError callback; the socket exists from construction, it can
\* fail once connect() has opened it.
OnSocketError ==
  /\ appChannel # Null
  /\ Quiet(<<Ev("socketError",
               <<ConnectionError(<<"WebSocket connection error">>)>>)>>,
           NoResult, Step("callback", "onSocketError", "", "", <<>>), pending)

\* Mutant: the close callback emits disconnected.
OnSocketCloseDisconnected ==
  /\ appChannel # Null
  /\ Quiet(<<Ev("disconnected", <<>>)>>, NoResult,
           Step("callback", "onSocketClose", "", "", <<>>), pending)

\* socket.onClose callback.
OnSocketClose ==
  /\ appChannel # Null
  /\ Quiet(<<Ev("socketClosed", <<>>)>>, NoResult,
           Step("callback", "onSocketClose", "", "", <<>>), pending)

----------------------------------------------------------------------------
(* The facade *)

NoStep == Step("init", "", "", "", <<>>)

\* The state the constructor leaves.
Init ==
  /\ sessionToken = Undefined
  /\ currentLobby = Null
  /\ lobbyChannel = Null
  /\ appChannel = Null
  /\ socketOpen = FALSE
  /\ subscribed = {}
  /\ pending = EmptyBag
  /\ emitted = <<>>
  /\ sent = <<>>
  /\ settled = NoResult
  /\ step = NoStep
  /\ pre = [sessionToken |-> Undefined, currentLobby |-> Null,
            lobbyChannel |-> Null]
  /\ joined = FALSE

ConnectResponses == [session_token : Tokens, active_configs : ConfigLists]

Next ==
  \/ Connect
  \/ \E r \in BagToSet(pending), resp \in ConnectResponses : ConnectOk(r, resp)
  \/ \E r \in BagToSet(pending), reason \in Reasons : ConnectError(r, reason)
  \/ \E c \in ConfigIds, via \in {"findLobby", "findAndJoinLobby"} : FindLobby(c, via)
  \/ \E r \in BagToSet(pending), lobby \in Lobbies : FindOk(r, lobby)
  \/ \E r \in BagToSet(pending), reason \in Reasons : FindError(r, reason)
  \/ \E lobby \in Lobbies : JoinLobby(lobby)
  \/ \E r \in BagToSet(pending), lobby \in Lobbies : JoinOk(r, lobby)
  \/ \E r \in BagToSet(pending), reason \in Reasons : JoinError(r, reason)
  \/ \E hostInfo \in HostInfos : SetHostInfo(hostInfo)
  \/ \E r \in BagToSet(pending) : SetHostOk(r)
  \/ \E r \in BagToSet(pending), reason \in Reasons : SetHostError(r, reason)
  \/ LeaveLobby
  \/ \E r \in BagToSet(pending) : LeaveOk(r)
  \/ \E r \in BagToSet(pending), reason \in Reasons : LeaveError(r, reason)
  \/ Disconnect
  \/ \E chan \in subscribed, lobby \in Lobbies : OnLobbyUpdate(chan, lobby)
  \/ OnSocketError
  \/ OnSocketClose

Spec == Init /\ [][Next]_vars

----------------------------------------------------------------------------
(* The facade talking to a server that keeps lobbies apart: on the channel *)
(* lobby:<N> it acknowledges a join and pushes lobby_update only with a    *)
(* snapshot of lobby N.                                                    *)

\* The id in the topic `lobby:${lobby.id}`.
TopicId(chan) == chan.topic[2]

\* The lobbies this server sends on chan.
LobbiesOn(chan) == {lobby \in Lobbies : chan = LobbyTopic(lobby.id)}

\* Next with the join acknowledgements and the pushes of this server.
SameLobbyNext ==
  \/ Connect
  \/ \E r \in BagToSet(pending), resp \in ConnectResponses : ConnectOk(r, resp)
  \/ \E r \in BagToSet(pending), reason \in Reasons : ConnectError(r, reason)
  \/ \E c \in ConfigIds, via \in {"findLobby", "findAndJoinLobby"} : FindLobby(c, via)
  \/ \E r \in BagToSet(pending), lobby \in Lobbies : FindOk(r, lobby)
  \/ \E r \in BagToSet(pending), reason \in Reasons : FindError(r, reason)
  \/ \E lobby \in Lobbies : JoinLobby(lobby)
  \/ \E r \in BagToSet(pending) : \E lobby \in LobbiesOn(r.chan) : JoinOk(r, lobby)
  \/ \E r \in BagToSet(pending), reason \in Reasons : JoinError(r, reason)
  \/ \E hostInfo \in HostInfos : SetHostInfo(hostInfo)
  \/ \E r \in BagToSet(pending) : SetHostOk(r)
  \/ \E r \in BagToSet(pending), reason \in Reasons : SetHostError(r, reason)
  \/ LeaveLobby
  \/ \E r \in BagToSet(pending) : LeaveOk(r)
  \/ \E r \in BagToSet(pending), reason \in Reasons : LeaveError(r, reason)
  \/ Disconnect
  \/ \E chan \in subscribed : \E lobby \in LobbiesOn(chan) : OnLobbyUpdate(chan, lobby)
  \/ OnSocketError
  \/ OnSocketClose

SameLobbySpec == Init /\ [][SameLobbyNext]_vars

----------------------------------------------------------------------------
(* The diff engine on its own: one lobby_update handled from each cached  *)
(* snapshot.                                                               *)

\* A client that has connected and joined lobby 1, acknowledged with
\* snapshot prev; or one that has nothing cached: it joined lobby 1, then
\* lobby 2 without leaving, and left lobby 2, so that the channel of
\* lobby 1 still delivers.
DiffInit ==
  \E prev \in DiffLobbies \cup {Null} :
    LET chan == LobbyTopic(1)
    IN /\ sessionToken = "t1"
       /\ currentLobby = prev
       /\ lobbyChannel = (IF prev = Null THEN Null ELSE chan)
       /\ appChannel = AppTopic
       /\ socketOpen = TRUE
       /\ subscribed = {chan}
       /\ pending = EmptyBag
       /\ emitted = <<>>
       /\ sent = <<>>
       /\ settled = NoResult
       /\ step = NoStep
       /\ pre = [sessionToken |-> "t1", currentLobby |-> prev,
                 lobbyChannel |-> (IF prev = Null THEN Null ELSE chan)]
       /\ joined = (prev # Null)

DiffNext ==
  /\ step = NoStep
  /\ \E chan \in subscribed, lobby \in DiffLobbies : OnLobbyUpdate(chan, lobby)

DiffSpec == DiffInit /\ [][DiffNext]_vars

----------------------------------------------------------------------------
(* Reading the last turn *)

IsUpdate == step.act = "push" /\ step.op = "onLobbyUpdate"

\* The snapshot the last lobby_update push carried.
Pushed == step.input[2]

IsCall(op) == step.act = "call" /\ step.op = op

IsAck(op, ack) == step.act = "ack" /\ step.op = op /\ step.ack = ack

Count(evs, name) == Cardinality({i \in DOMAIN evs : evs[i].name = name})

Ids(players) == {players[i].id : i \in DOMAIN players}

UniqueIds(players) == Cardinality(Ids(players)) = Len(players)

\* The players carried by the events called name, in emission order.
PlayersOf(evs, name) ==
  LET sel == SelectSeq(evs, LAMBDA e : e.name = name)
  IN [i \in DOMAIN sel |-> sel[i].args[1]]

\* s is t with some elements dropped.
RECURSIVE IsSubseq(_, _)
IsSubseq(s, t) ==
  IF s = <<>> THEN TRUE
  ELSE IF t = <<>> THEN FALSE
  ELSE IF Head(s) = Head(t) THEN IsSubseq(Tail(s), Tail(t))
  ELSE IsSubseq(s, Tail(t))

\* The ids of the players carried by the events called name.
IdsOf(evs, name) ==
  {evs[i].args[1].id : i \in {k \in DOMAIN evs : evs[k].name = name}}

SameHost(a, b) ==
  /\ a.host_type = b.host_type
  /\ a.host_address = b.host_address
  /\ a.host_port = b.host_port

\* evs is what a diff of next against base gives: which players joined and
\* left, whether the status and the host changed.
DerivedFrom(base, next, evs) ==
  /\ Count(evs, "lobbyUpdate") = 1
  /\ IF base = Null
     THEN Len(evs) = 1
     ELSE /\ IdsOf(evs, "playerJoined") = Ids(next.players) \ Ids(base.players)
          /\ IdsOf(evs, "playerLeft") = Ids(base.players) \ Ids(next.players)
          /\ Count(evs, "statusChanged") =
               (IF next.status = base.status THEN 0 ELSE 1)
          /\ Count(evs, "hostChanged") =
               (IF SameHost(base, next) THEN 0 ELSE 1)

\* The request each public method puts on the transport.
RequestOf(op) ==
  CASE op = "connect" -> "phx_join"
    [] op = "findLobby" -> "find_lobby"
    [] op = "joinLobby" -> "phx_join"
    [] op = "setHostInfo" -> "set_host"
    [] op = "leaveLobby" -> "leave"
    [] OTHER -> "none"

EventNames ==
  {"connected", "lobbyFound", "lobbyJoined", "hostInfoSet", "lobbyLeft",
   "playerJoined", "playerLeft", "statusChanged", "hostChanged",
   "lobbyUpdate", "error", "socketError", "socketClosed"}

Rank(name) ==
  CASE name = "playerJoined" -> 1
    [] name = "playerLeft" -> 2
    [] name = "statusChanged" -> 3
    [] name = "hostChanged" -> 4
    [] name = "lobbyUpdate" -> 5
    [] OTHER -> 0

----------------------------------------------------------------------------
(* Claims *)

\* C1: one lobby_update handled with a cached snapshot emits, in this
\* order, the playerJoined events (in the order of the new players list),
\* the playerLeft events (in the order of the previous players list), at
\* most one statusChanged, at most one hostChanged, and exactly one
\* lobbyUpdate, last.
C1_EventOrder ==
  (IsUpdate /\ pre.currentLobby # Null) =>
    /\ \A i \in DOMAIN emitted : Rank(emitted[i].name) > 0
    /\ \A i, j \in DOMAIN emitted :
         i < j => /\ Rank(emitted[i].name) <= Rank(emitted[j].name)
                  /\ Rank(emitted[j].name) >= 3
                       => Rank(emitted[i].name) < Rank(emitted[j].name)
    /\ emitted # <<>>
    /\ emitted[Len(emitted)].name = "lobbyUpdate"
    /\ IsSubseq(PlayersOf(emitted, "playerJoined"), Pushed.players)
    /\ IsSubseq(PlayersOf(emitted, "playerLeft"), pre.currentLobby.players)

\* C1 witness: previous players [1], next players [2, 3], status and host
\* changed: two playerJoined in list order, then playerLeft, statusChanged,
\* hostChanged and lobbyUpdate.
C1_Witness ==
  /\ IsUpdate
  /\ pre.currentLobby # Null
  /\ Names(emitted) = <<"playerJoined", "playerJoined", "playerLeft",
                        "statusChanged", "hostChanged", "lobbyUpdate">>
  /\ PlayersOf(emitted, "playerJoined") = <<Player(2), Player(3)>>

\* C2: with unique player ids in the previous and in the next snapshot,
\* one lobby_update emits exactly one playerJoined for each player of next
\* whose id is not in previous, exactly one playerLeft for each player of
\* previous whose id is not in next, none for any other player, each
\* carrying the next snapshot.
C2_JoinedLeftExact ==
  (/\ IsUpdate
   /\ pre.currentLobby # Null
   /\ UniqueIds(pre.currentLobby.players)
   /\ UniqueIds(Pushed.players)) =>
    LET prev == pre.currentLobby
        joinedEv(p) == {i \in DOMAIN emitted :
                          /\ emitted[i].name = "playerJoined"
                          /\ emitted[i].args[1] = p}
        leftEv(p) == {i \in DOMAIN emitted :
                        /\ emitted[i].name = "playerLeft"
                        /\ emitted[i].args[1] = p}
    IN /\ \A k \in DOMAIN Pushed.players :
            Cardinality(joinedEv(Pushed.players[k])) =
              IF Pushed.players[k].id \in Ids(prev.players) THEN 0 ELSE 1
       /\ \A k \in DOMAIN prev.players :
            Cardinality(leftEv(prev.players[k])) =
              IF prev.players[k].id \in Ids(Pushed.players) THEN 0 ELSE 1
       /\ Count(emitted, "playerJoined") =
            Cardinality(Ids(Pushed.players) \ Ids(prev.players))
       /\ Count(emitted, "playerLeft") =
            Cardinality(Ids(prev.players) \ Ids(Pushed.players))
       /\ \A i \in DOMAIN emitted :
            emitted[i].name \in {"playerJoined", "playerLeft"}
              => emitted[i].args[2] = Pushed

\* C2 witness: [1, 2] -> [2, 3] gives one playerJoined for 3 and one
\* playerLeft for 1.
C2_Witness ==
  /\ IsUpdate
  /\ pre.currentLobby # Null
  /\ Ids(pre.currentLobby.players) = {1, 2}
  /\ Pushed.players = <<Player(2), Player(3)>>
  /\ Len(pre.currentLobby.players) = 2
  /\ PlayersOf(emitted, "playerJoined") = <<Player(3)>>
  /\ PlayersOf(emitted, "playerLeft") = <<Player(1)>>

\* C3: a lobby_update handled while nothing is cached emits exactly one
\* event, lobbyUpdate with the pushed snapshot, and getCurrentLobby() then
\* returns the pushed snapshot.
C3_FirstSnapshot ==
  (IsUpdate /\ pre.currentLobby = Null) =>
    /\ Names(emitted) = <<"lobbyUpdate">>
    /\ emitted[1].args = <<Pushed>>
    /\ GetCurrentLobby = Pushed

\* C3 witness: a push handled with nothing cached and no lobby channel
\* held, on a channel that was joined earlier and never left.
C3_Witness ==
  /\ IsUpdate
  /\ pre.currentLobby = Null
  /\ lobbyChannel = Null
  /\ Names(emitted) = <<"lobbyUpdate">>
  /\ GetCurrentLobby = Pushed

\* C4 as claimed: on a client that never completed a connect (the token is
\* assigned only by connect's ok branch and never unset), a call of
\* setHostInfo, leaveLobby or joinLobby rejects with a ConnectionError and
\* sends nothing.
C4_ConnectionErrorWhenNeverConnected ==
  (/\ step.act = "call"
   /\ step.op \in {"setHostInfo", "leaveLobby", "joinLobby"}
   /\ pre.sessionToken = Undefined) =>
    /\ settled.state = "rejected"
    /\ settled.val[1].name = "ConnectionError"
    /\ sent = <<>>

\* C4 amended: on a client that never completed a connect, a call of
\* setHostInfo, leaveLobby or joinLobby rejects at once and sends nothing;
\* joinLobby rejects with ConnectionError "Not connected", setHostInfo and
\* leaveLobby with LobbyError "Not in a lobby".
C4_RejectedWhenNeverConnected ==
  (/\ step.act = "call"
   /\ step.op \in {"setHostInfo", "leaveLobby", "joinLobby"}
   /\ pre.sessionToken = Undefined) =>
    /\ settled.state = "rejected"
    /\ settled.val[1] = IF step.op = "joinLobby"
                        THEN ConnectionError(<<"Not connected">>)
                        ELSE LobbyError(<<"Not in a lobby">>)
    /\ sent = <<>>

\* C4 witness: setHostInfo called on a client that has no token, rejected.
C4_Witness ==
  /\ IsCall("setHostInfo")
  /\ pre.sessionToken = Undefined
  /\ settled.state = "rejected"
  /\ sent = <<>>

\* C5 as claimed: whenever a public async operation rejects, the same turn
\* emitted exactly one error event carrying the rejection's error.
C5_ErrorEventOnEveryRejection ==
  settled.state = "rejected" =>
    /\ Count(emitted, "error") = 1
    /\ \E i \in DOMAIN emitted :
         emitted[i].name = "error" /\ emitted[i].args = settled.val

\* C6 as claimed: when disconnect() returns the client holds no session
\* token.
C6_TokenClearedByDisconnect ==
  IsCall("disconnect") => sessionToken = Undefined

\* C7 as claimed: set_host is sent only in LobbyJoined, and a setHostInfo
\* call in any other facade state rejects at once and sends nothing.
C7_SetHostOnlyInLobbyJoined ==
  /\ (\E k \in DOMAIN sent : sent[k].event = "set_host") => joined
  /\ (IsCall("setHostInfo") /\ ~joined) =>
       (settled.state = "rejected" /\ sent = <<>>)

\* C7 amended: set_host is sent only while the client holds a lobby
\* channel and a session token, which includes the time a lobby join still
\* awaits its acknowledgement; it goes out on that channel, once.  A
\* setHostInfo call while no lobby channel is held rejects at once with
\* LobbyError "Not in a lobby" and sends nothing.
C7_SetHostOnlyWithChannel ==
  /\ (\E k \in DOMAIN sent : sent[k].event = "set_host") =>
       IsCall("setHostInfo")
  /\ IsCall("setHostInfo") =>
       IF pre.lobbyChannel = Null
       THEN /\ settled = Rejected("setHostInfo", LobbyError(<<"Not in a lobby">>))
            /\ sent = <<>>
       ELSE /\ pre.sessionToken # Undefined
            /\ settled = NoResult
            /\ Len(sent) = 1
            /\ sent[1].event = "set_host"
            /\ sent[1].chan = pre.lobbyChannel

\* C7 witness: set_host sent outside LobbyJoined, while the join of the
\* held channel still awaits its acknowledgement.
C7_Witness ==
  /\ IsCall("setHostInfo")
  /\ ~joined
  /\ \E r \in BagToSet(pending) :
       r.op = "joinLobby" /\ r.chan = lobbyChannel
  /\ Len(sent) = 1
  /\ sent[1].event = "set_host"

\* C8 as claimed: when the leave request is acknowledged with ok, the
\* client emits lobbyLeft with the id cached when leaveLobby was called,
\* and afterwards getCurrentLobby() is null and no lobby channel is held.
C8_LeaveOkClears ==
  IsAck("leaveLobby", "ok") =>
    /\ \E i \in DOMAIN emitted :
         emitted[i].name = "lobbyLeft" /\ emitted[i].args = step.input
    /\ GetCurrentLobby = Null
    /\ lobbyChannel = Null

\* C9: connect stores the token and emits connected, with exactly the
\* acknowledgement's configs list, which it also resolves to, if and only
\* if the app-channel join is acknowledged with ok; on an error
\* acknowledgement nothing is connected, the token stays as it was and
\* the rejection is a ConnectionError whose message carries the server's
\* reason, or "Unknown error" when there is none.
C9_ConnectAck ==
  /\ IsAck("connect", "ok") =>
       /\ sessionToken = step.input[1].session_token
       /\ Names(emitted) = <<"connected">>
       /\ emitted[1].args = <<step.input[1].active_configs>>
       /\ settled = Resolved("connect", step.input[1].active_configs)
  /\ IsAck("connect", "error") =>
       /\ Count(emitted, "connected") = 0
       /\ sessionToken = pre.sessionToken
       /\ settled.state = "rejected"
       /\ settled.val[1].name = "ConnectionError"
       /\ settled.val[1].message[Len(settled.val[1].message)] =
            IF step.input[1] = Undefined THEN "Unknown error"
            ELSE step.input[1]
  /\ (Count(emitted, "connected") > 0 \/ sessionToken # pre.sessionToken)
       => IsAck("connect", "ok")

\* C9 witness: a reconnect acknowledged with error and no reason, on a
\* client that already holds a token.
C9_Witness ==
  /\ IsAck("connect", "error")
  /\ step.input = <<Undefined>>
  /\ sessionToken = "t1"
  /\ settled.state = "rejected"

\* C10: in findAndJoinLobby, the turn that handles find_lobby's ok emits
\* lobbyFound and no lobbyJoined, and (holding a token) joins the channel
\* lobby:<found id>; lobbyJoined comes with the acknowledgement of that
\* join, in a later turn, and carries the found lobby's id when the
\* acknowledged lobby is the one of the channel; when find_lobby is
\* acknowledged with error no channel is created, no join is sent and the
\* call ends rejected.
C10_FindThenJoin ==
  /\ (IsAck("findLobby", "ok") /\ step.via = "findAndJoinLobby") =>
       /\ Names(emitted) = <<"lobbyFound">>
       /\ emitted[1].args = step.input
       /\ pre.sessionToken # Undefined =>
            /\ Len(sent) = 1
            /\ sent[1].event = "phx_join"
            /\ sent[1].chan.topic = <<"lobby:", step.input[1].id>>
            /\ lobbyChannel = sent[1].chan
            /\ BagIn(Pending("joinLobby", "findAndJoinLobby", sent[1],
                             step.input), pending)
            /\ settled = NoResult
  /\ \A r \in BagToSet(pending) :
       (r.op = "joinLobby" /\ r.via = "findAndJoinLobby")
         => r.chan.topic = <<"lobby:", r.captured[1].id>>
  /\ (IsAck("joinLobby", "ok") /\ step.via = "findAndJoinLobby") =>
       /\ Names(emitted) = <<"lobbyJoined">>
       /\ emitted[1].args = <<step.input[1]>>
       /\ step.input[2].topic = <<"lobby:", step.input[3].id>>
       /\ step.input[2].topic = <<"lobby:", step.input[1].id>>
            => emitted[1].args[1].id = step.input[3].id
  /\ (step.via = "findAndJoinLobby" /\ sent # <<>> /\ step.act = "ack") =>
       IsAck("findLobby", "ok")
  /\ (step.via = "findAndJoinLobby" /\ Count(emitted, "lobbyJoined") > 0) =>
       IsAck("joinLobby", "ok")
  /\ (IsAck("findLobby", "error") /\ step.via = "findAndJoinLobby") =>
       /\ Names(emitted) = <<"error">>
       /\ sent = <<>>
       /\ lobbyChannel = pre.lobbyChannel
       /\ settled.state = "rejected"
       /\ settled.op = "findAndJoinLobby"

\* C10 witness: the join of findAndJoinLobby acknowledged with the found
\* lobby: lobbyJoined carries the id lobbyFound carried.
C10_Witness ==
  /\ IsAck("joinLobby", "ok")
  /\ step.via = "findAndJoinLobby"
  /\ step.input[1] = step.input[3]
  /\ step.input[1].id = 2
  /\ Names(emitted) = <<"lobbyJoined">>

\* C11: when a lobby_update push has been handled, getCurrentLobby() is
\* exactly the pushed snapshot, and the events of that push are those of a
\* diff against the snapshot cached immediately before it: the snapshot of
\* the preceding push when the preceding turn was a push, the lobby of the
\* join acknowledgement when the preceding turn was a join acknowledged ok.
C11_CacheIsLastPush ==
  [][IsUpdate' =>
       /\ GetCurrentLobby' = Pushed'
       /\ DerivedFrom(currentLobby, Pushed', emitted')
       /\ pre'.currentLobby = currentLobby
       /\ IsUpdate => DerivedFrom(Pushed, Pushed', emitted')
       /\ IsAck("joinLobby", "ok") =>
            DerivedFrom(step.input[1], Pushed', emitted')]_vars

\* C11 witness: a push of lobby 1 with player 1 alone, handled while the
\* two-player snapshot of lobby 1 is cached: player 2 left, and the cache
\* is the pushed snapshot, players list included.
C11_Witness ==
  /\ IsUpdate
  /\ joined
  /\ pre.currentLobby # Null
  /\ pre.currentLobby.players = <<Player(1), Player(2)>>
  /\ Pushed.players = <<Player(1)>>
  /\ Names(emitted) = <<"playerLeft", "lobbyUpdate">>
  /\ GetCurrentLobby = Pushed

\* C12: a lobby_update whose snapshot has the same player ids, status, host
\* type, host address and host port as the cached one emits no
\* playerJoined, playerLeft, statusChanged or hostChanged and exactly one
\* lobbyUpdate, carrying the snapshot; this covers the same snapshot
\* delivered twice in a row.
C12_EqualSnapshotOnlyUpdate ==
  (/\ IsUpdate
   /\ pre.currentLobby # Null
   /\ Ids(pre.currentLobby.players) = Ids(Pushed.players)
   /\ pre.currentLobby.status = Pushed.status
   /\ SameHost(pre.currentLobby, Pushed)) =>
    /\ Names(emitted) = <<"lobbyUpdate">>
    /\ emitted[1].args = <<Pushed>>

\* C12 witness: the cached snapshot itself, two players and a full host
\* descriptor, delivered again.
C12_Witness ==
  /\ IsUpdate
  /\ pre.currentLobby = Pushed
  /\ Len(Pushed.players) = 2
  /\ Pushed.host_type = "dedicated"
  /\ Pushed.host_address = "1.2.3.4"
  /\ Pushed.host_port = "7000"
  /\ Names(emitted) = <<"lobbyUpdate">>

\* C13: with a cached snapshot, one lobby_update emits hostChanged exactly
\* once when host_type, host_address or host_port differs from the cached
\* value (an absent field differs from any present value) and not at all
\* otherwise; the event carries the pushed snapshot's type, address and
\* port, absent ones included, and the pushed snapshot.
C13_HostChangedIff ==
  (IsUpdate /\ pre.currentLobby # Null) =>
    LET prev == pre.currentLobby
        differs == \/ Pushed.host_type # prev.host_type
                   \/ Pushed.host_address # prev.host_address
                   \/ Pushed.host_port # prev.host_port
    IN /\ Count(emitted, "hostChanged") = (IF differs THEN 1 ELSE 0)
       /\ \A i \in DOMAIN emitted :
            emitted[i].name = "hostChanged" =>
              emitted[i].args = <<[type |-> Pushed.host_type,
                                   address |-> Pushed.host_address,
                                   port |-> Pushed.host_port], Pushed>>

\* C13 witness: only the port goes from present to absent, everything else
\* equal: one hostChanged whose descriptor has no port.
C13_Witness ==
  /\ IsUpdate
  /\ pre.currentLobby # Null
  /\ pre.currentLobby.host_port = "7000"
  /\ Pushed = [pre.currentLobby EXCEPT !.host_port = Undefined]
  /\ Pushed.host_type = "p2p"
  /\ Names(emitted) = <<"hostChanged", "lobbyUpdate">>
  /\ emitted[1].args[1].port = Undefined

\* C14: with a cached snapshot, one lobby_update emits statusChanged
\* exactly once when the pushed status differs from the cached one and not
\* at all otherwise; the event carries the pushed status and the pushed
\* snapshot.
C14_StatusChangedIff ==
  (IsUpdate /\ pre.currentLobby # Null) =>
    /\ Count(emitted, "statusChanged") =
         (IF Pushed.status # pre.currentLobby.status THEN 1 ELSE 0)
    /\ \A i \in DOMAIN emitted :
         emitted[i].name = "statusChanged" =>
           emitted[i].args = <<Pushed.status, Pushed>>

\* C14 witness: open -> full, all else equal: one statusChanged with value
\* full.
C14_Witness ==
  /\ IsUpdate
  /\ pre.currentLobby # Null
  /\ pre.currentLobby.status = "open"
  /\ Pushed = [pre.currentLobby EXCEPT !.status = "full"]
  /\ Names(emitted) = <<"statusChanged", "lobbyUpdate">>
  /\ emitted[1].args[1] = "full"

\* C15: within one lobby_update handler call no player id is carried both
\* by a playerJoined and by a playerLeft event, whatever the two snapshots
\* are, repeated ids included.
C15_JoinedLeftDisjoint ==
  IsUpdate =>
    IdsOf(emitted, "playerJoined") \cap IdsOf(emitted, "playerLeft") = {}

\* C15 witness: both snapshots repeat an id: [1, 1] -> [2, 2] gives two
\* playerJoined for 2 and two playerLeft for 1.
C15_Witness ==
  /\ IsUpdate
  /\ pre.currentLobby # Null
  /\ pre.currentLobby.players = <<Player(1), Player(1)>>
  /\ Pushed.players = <<Player(2), Player(2)>>
  /\ IdsOf(emitted, "playerJoined") = {2}
  /\ IdsOf(emitted, "playerLeft") = {1}
  /\ Count(emitted, "playerJoined") = 2
  /\ Count(emitted, "playerLeft") = 2

\* C16: one turn sends at most one request.  A call of connect, findLobby,
\* joinLobby, setHostInfo or leaveLobby sends at most its own request, in
\* the turn of the call, and that request is then in flight; the turn of
\* an acknowledgement takes one request out of flight and sends nothing,
\* except that the ok of find_lobby in findAndJoinLobby sends the one lobby
\* join; pushes and socket callbacks send nothing.  After an error
\* acknowledgement the call is rejected and nothing is sent.
C16_OneRequestNoRetry ==
  [][/\ Len(sent') <= 1
     /\ step'.act = "call" =>
          /\ \A k \in DOMAIN sent' : sent'[k].event = RequestOf(step'.op)
          /\ step'.op # "disconnect" =>
               BagCardinality(pending') = BagCardinality(pending) + Len(sent')
     /\ step'.act = "ack" =>
          /\ BagCardinality(pending') =
               BagCardinality(pending) - 1 + Len(sent')
          /\ sent' # <<>> =>
               /\ step'.op = "findLobby"
               /\ step'.ack = "ok"
               /\ step'.via = "findAndJoinLobby"
               /\ sent'[1].event = "phx_join"
               /\ sent'[1].chan = LobbyTopic(step'.input[1].id)
     /\ step'.act \in {"push", "callback"} => sent' = <<>>
     /\ step'.ack = "error" =>
          /\ sent' = <<>>
          /\ settled'.state = "rejected"]_vars

\* C16 witness: the lobby join of findAndJoinLobby, its second request,
\* acknowledged with error: the call is rejected and nothing is sent.
C16_Witness ==
  /\ IsAck("joinLobby", "error")
  /\ step.via = "findAndJoinLobby"
  /\ sent = <<>>
  /\ settled.state = "rejected"
  /\ settled.op = "findAndJoinLobby"

\* C17 as claimed: every emitted event has one of the thirteen names
\* connected, lobbyFound, lobbyJoined, hostInfoSet, lobbyLeft,
\* playerJoined, playerLeft, statusChanged, hostChanged, lobbyUpdate,
\* error, socketError, socketClosed.
C17_OnlyListedEvents ==
  \A i \in DOMAIN emitted : emitted[i].name \in EventNames

\* C17 amended: every emitted event has one of the thirteen names or is
\* disconnected; disconnected is emitted by disconnect() and by nothing
\* else, exactly once per call, last and without payload.
C17_ListedEventsAndDisconnected ==
  /\ \A i \in DOMAIN emitted :
       emitted[i].name \in EventNames \cup {"disconnected"}
  /\ Count(emitted, "disconnected") = (IF IsCall("disconnect") THEN 1 ELSE 0)
  /\ IsCall("disconnect") =>
       emitted[Len(emitted)] = Ev("disconnected", <<>>)

\* C17 witness: disconnect() called while in a lobby.
C17_Witness ==
  /\ IsCall("disconnect")
  /\ pre.currentLobby # Null
  /\ pre.lobbyChannel # Null
  /\ Names(emitted) = <<"disconnected">>

\* C18 as claimed: whenever getCurrentLobby() is non-null the client holds
\* a lobby channel.
C18_LobbyImpliesChannel ==
  GetCurrentLobby # Null => lobbyChannel # Null

\* C19 as claimed, with a server that sends on lobby:<N> only lobbies of id
\* N: the cached lobby's id is the id of the lobby channel held, and every
\* leave request goes out on the channel whose topic id is the lobby_id of
\* its payload.
C19_CacheMatchesChannel ==
  /\ (GetCurrentLobby # Null /\ lobbyChannel # Null) =>
       TopicId(lobbyChannel) = GetCurrentLobby.id
  /\ \A k \in DOMAIN sent :
       sent[k].event = "leave" =>
         TopicId(sent[k].chan) = sent[k].payload.lobby_id

\* C20: the turn of an error acknowledgement of findLobby, setHostInfo,
\* leaveLobby or connect leaves the session token, the cached lobby and
\* the lobby channel as they were, and so does the turn of the call of
\* findLobby, setHostInfo, leaveLobby and connect; the turn of an error
\* acknowledgement of joinLobby resets the lobby channel to null and
\* leaves the token and the cached lobby as they were.
C20_FailureFrame ==
  LET same == /\ sessionToken = pre.sessionToken
              /\ GetCurrentLobby = pre.currentLobby
      ops == {"findLobby", "setHostInfo", "leaveLobby", "connect"}
  IN /\ (step.act = "ack" /\ step.ack = "error" /\ step.op \in ops) =>
          (same /\ lobbyChannel = pre.lobbyChannel)
     /\ (step.act = "call" /\ step.op \in ops) =>
          (same /\ lobbyChannel = pre.lobbyChannel)
     /\ IsAck("joinLobby", "error") => (same /\ lobbyChannel = Null)

\* C20 witness: leaveLobby acknowledged with error while in a lobby: the
\* lobby is still cached and its channel still held.
C20_Witness ==
  /\ IsAck("leaveLobby", "error")
  /\ joined
  /\ GetCurrentLobby # Null
  /\ lobbyChannel = LobbyTopic(GetCurrentLobby.id)
  /\ settled.state = "rejected"

====
